---- MODULE Spec2Model ----
(***************************************************************************)
(* Status Change Detector (src/services/statusService.js) and Notifier     *)
(* (the two snapshots of services/statusNotification.js, src/unnamed/      *)
(* part_002 and part_003) of the ticket-defense intake backend.            *)
(*                                                                         *)
(* One record of `task` follows one "modified" change from the moment      *)
(* handleSnapshot hands it to setImmediate until the last promise it       *)
(* started has settled.  Every await of the code is a point where the      *)
(* record rests (its pc) and where other tasks may run.  The records are   *)
(* reused once a change is finished (Retire), so that the collections the  *)
(* code appends to (audit-logs, admin_alerts, notification_logs,           *)
(* scheduled_review_emails) are kept as per-change counters.               *)
(***************************************************************************)
EXTENDS Integers, Sequences, FiniteSets, TLC

VARIABLES
  notifier,        \* which snapshot of statusNotification.js is deployed
  now,             \* Date.now(), in ms
  isActive,        \* StatusService.isActive
  unsubscribe,     \* StatusService.unsubscribe: 0 is null, 1 a held handle
  feedLive,        \* the held subscription still delivers batches
  subscriptions,   \* history: onSnapshot registrations not yet unsubscribed
  restartTimers,   \* pending setTimeout callbacks of handleListenerError
  processingIds,   \* StatusService.processingIds
  rateLimit,       \* StatusService.rateLimit: caseId -> sequence of timestamps
  dispatchLog,     \* history: caseId -> times sendNotificationsAsync was called
  immediateQ,      \* pending setImmediate callbacks, oldest first
  task,            \* slot -> the change it carries and where its code stands
  server,          \* which snapshot of server.js is deployed
  tickets,         \* the tickets collection: case ID -> document
  job,             \* the payment event being handled by /api/stripe-webhook
  checkout,        \* /api/create-payment-session between its read and its write
  cleanupDue,      \* when the setInterval of start() next runs cleanupRateLimits
  maskArg,         \* an address handed to maskEmail
  maskResult,      \* what maskEmail returned for it
  skipped,         \* history: the kinds of changes handleSnapshot passed over
  stopRequested    \* history: the owner called stop() and not start() since

vars == <<notifier, now, isActive, unsubscribe, feedLive, subscriptions, restartTimers,
          processingIds, rateLimit, dispatchLog, immediateQ, task,
          server, tickets, job, checkout, cleanupDue, maskArg, maskResult, skipped,
          stopRequested>>

listenerVars == <<isActive, unsubscribe, feedLive, subscriptions, restartTimers,
                  stopRequested>>
detectorVars == <<processingIds, rateLimit, dispatchLog, immediateQ, task>>
paymentVars == <<server, tickets, job, checkout>>
maskVars == <<maskArg, maskResult>>

-----------------------------------------------------------------------------
(* Bounds of the model *)

MaxSlots == 2
TickMs == 30000
MaxNow == 90000
MaxRestartTimers == 1
MaxHistory == 3
MaxAddressLen == 5
MaxHours == 1

Slots == 1..MaxSlots

(* Program constants *)

RateWindowMs == 60000
RateMax == 5
MaxRetries == 3
RetryDelayMs == 5000
CleanupIntervalMs == 3600000
ReviewDelayMs == 86400000
MinCaseIdLen == 3

-----------------------------------------------------------------------------
(* Values *)

Missing == ""

validStatuses ==
  {"approval_pending", "case_approved", "case_in_progress",
   "case_appealed", "requires_attention", "case_dismissed"}

Notifiers == {"part_002", "part_003"}

Cases == {"abc123", "c2"}

GatewayErrors == {"ECONNRESET", "HTTP 503"}

\* the answers by which the gateway reports a failed send through its result
\* value ({success: false, error}) instead of throwing
ReportedFailures == {"success_false"}

GoodEmail == <<"a", "@", "b", ".", "c">>
BadEmail == <<"b", "a", "d">>
NoEmail == <<>>

\* no interval of start() is armed yet
NotArmed == -1

\* maskEmail has not been called
NotCalled == [done |-> FALSE, out |-> <<>>]


-----------------------------------------------------------------------------
(* Pure helpers *)

IsSpace(c) == c \in {" ", "\t", "\n"}

\* /^[^\s@]+@[^\s@]+\.[^\s@]+$/ : exactly one "@", no whitespace, a "." after
\* the "@" with at least one character on each side of it.
emailRegexTest(e) ==
  /\ \A i \in 1..Len(e) : ~IsSpace(e[i])
  /\ Cardinality({i \in 1..Len(e) : e[i] = "@"}) = 1
  /\ \E i \in 1..Len(e) :
       /\ e[i] = "@"
       /\ i > 1
       /\ \E j \in (i + 2)..(Len(e) - 1) : e[j] = "."

\* .replace(/[<>]/g, '').substring(0, 1000)
StripAngle(str) == SelectSeq(str, LAMBDA c : c \notin {"<", ">"})
sanitizeString(str) ==
  LET t == StripAngle(str) IN IF Len(t) > 1000 THEN SubSeq(t, 1, 1000) ELSE t

\* faulty variant: an unchanged caseStatus is not looked for
isValidStatusChange_SameStatus(oldStatus, newStatus, email) ==
  /\ oldStatus # Missing
  /\ newStatus # Missing
  /\ newStatus \in validStatuses
  /\ email # NoEmail

\* faulty variant: the list of known statuses is not consulted
isValidStatusChange_AnyStatus(oldStatus, newStatus, email) ==
  /\ oldStatus # Missing
  /\ newStatus # Missing
  /\ oldStatus # newStatus
  /\ email # NoEmail

\* StatusService.isValidStatusChange: a missing document, a missing field and
\* an empty string all take the same (falsy) branch and are one value here.
isValidStatusChange(oldStatus, newStatus, email) ==
  /\ oldStatus # Missing
  /\ newStatus # Missing
  /\ oldStatus # newStatus
  /\ newStatus \in validStatuses
  /\ email # NoEmail

\* timestamps.filter(ts => ts > oneMinuteAgo)
RecentStamps(stamps, t) == SelectSeq(stamps, LAMBDA ts : ts > t - RateWindowMs)

\* faulty variant: the comparison lets a sixth change through
isRateLimited_OffByOne(caseId) ==
  Len(RecentStamps(rateLimit[caseId], now)) > RateMax

isRateLimited(caseId) == Len(RecentStamps(rateLimit[caseId], now)) >= RateMax

\* faulty variant: the cleanup empties every entry
cleanupRateLimits_DropAll(rl, t) == [c \in DOMAIN rl |-> <<>>]

\* cleanupRateLimits at time t: the timestamps of the last hour are kept; a
\* deleted entry and an empty one read the same (get(caseId) || [])
cleanupRateLimits(rl, t) ==
  [c \in DOMAIN rl |-> SelectSeq(rl[c], LAMBDA ts : ts > t - CleanupIntervalMs)]

\* faulty variant: any case being processed blocks every other
AlreadyProcessing_AnyCase(caseId) == processingIds # {}

\* faulty variant: the idempotency check never finds the case
AlreadyProcessing_Never(caseId) == FALSE

AlreadyProcessing(caseId) == caseId \in processingIds

\* StatusNotification.validateInputs: the message of the error it throws,
\* or Missing when it returns.
validateInputs(which, status, email, caseId) ==
  IF status \notin validStatuses THEN "Invalid status"
  ELSE IF email = NoEmail
         THEN (IF which = "part_003" THEN "Valid email is required" ELSE "Email required")
  ELSE IF ~emailRegexTest(email) THEN "Invalid email format"
  ELSE IF which = "part_003" /\ Len(caseId) < MinCaseIdLen THEN "Valid caseId is required"
  ELSE Missing

\* StatusNotification.validateEmailData (part_003 only, inside the retry loop)
\* on the sanitized recipient; subject and html come from the fixed templates.
validateEmailData(which, email) ==
  IF which = "part_003" /\ ~emailRegexTest(sanitizeString(email))
    THEN "Invalid email format" ELSE Missing

\* the delay before attempt k + 1: 2^k s in part_003, 2 s * k in part_002
Pow2(k) == IF k = 1 THEN 2 ELSE IF k = 2 THEN 4 ELSE 8
\* faulty variant: the delay does not grow with the attempt
Backoff_Fixed(which, attempt) == 2000

Backoff(which, attempt) ==
  IF which = "part_003" THEN Pow2(attempt) * 1000 ELSE 2000 * attempt

\* what sendEmailWithRetry throws once the last attempt has failed
ExhaustedError(which, lastError) ==
  IF which = "part_003" THEN "Failed to send email after 3 attempts" ELSE lastError

\* email.split('@'): the part before the first "@" and the part between the
\* first and the second (undefined, here empty, when there is no "@")
FirstAt(e) ==
  IF \E i \in 1..Len(e) : e[i] = "@"
    THEN CHOOSE i \in 1..Len(e) : e[i] = "@" /\ \A j \in 1..(i - 1) : e[j] # "@"
    ELSE 0

SplitName(e) == IF FirstAt(e) = 0 THEN e ELSE SubSeq(e, 1, FirstAt(e) - 1)

SplitDomain(e) ==
  IF FirstAt(e) = 0 THEN <<>>
  ELSE SplitName(SubSeq(e, FirstAt(e) + 1, Len(e)))

\* '*'.repeat(n)
Stars(n) == [i \in 1..n |-> "*"]

Unknown == <<"u", "n", "k", "n", "o", "w", "n">>
Invalid == <<"i", "n", "v", "a", "l", "i", "d">>

\* StatusNotification.maskEmail of the snapshot `which`
maskEmail(which, email) ==
  LET name == SplitName(email)
      domain == SplitDomain(email)
  IN IF which = "part_003"
       THEN IF email = NoEmail THEN Unknown
            ELSE IF name = <<>> \/ domain = <<>> THEN Invalid
            ELSE (IF Len(name) > 2
                    THEN SubSeq(name, 1, 2) \o Stars(Len(name) - 2)
                    ELSE <<"*", "*">>) \o <<"@">> \o domain
       ELSE IF name = <<>> \/ domain = <<>> THEN Unknown
            ELSE (IF Len(name) > 2
                    THEN SubSeq(name, 1, 2) \o <<"*">>
                    ELSE <<"*", "*">>) \o <<"@">> \o domain

-----------------------------------------------------------------------------
(* Task records *)

FreeTask ==
  [pc |-> "free", type |-> Missing, caseId |-> Missing, oldStatus |-> Missing, newStatus |-> Missing,
   email |-> NoEmail, readThrows |-> FALSE, outcome |-> Missing,
   round |-> 0, attempt |-> 0, delay |-> 0,
   gwCalls |-> 0, accepted |-> 0, lastGwError |-> Missing,
   audit |-> 0, stamps |-> 0, reviews |-> 0, scheduledFor |-> 0,
   notifLogs |-> 0, loggedEmail |-> NoEmail,
   alertCalls |-> 0, alerts |-> 0, alertCase |-> Missing, alertError |-> Missing]

Change(type, id, readThrows, oldStatus, newStatus, email) ==
  [type |-> type, id |-> id, readThrows |-> readThrows,
   oldStatus |-> oldStatus, newStatus |-> newStatus, email |-> email]

ModifiedChanges ==
  {Change("modified", id, rt, o, n, e) :
     id \in Cases, rt \in BOOLEAN,
     o \in {Missing, "approval_pending"},
     n \in {Missing, "bogus_status", "approval_pending", "case_approved", "case_dismissed"},
     e \in {NoEmail, BadEmail, GoodEmail}}

OtherChanges ==
  {Change(ty, id, FALSE, Missing, "approval_pending", GoodEmail) :
     ty \in {"added", "removed"}, id \in Cases}

Changes == ModifiedChanges \cup OtherChanges

FreeSlots == {s \in Slots : task[s].pc = "free"}


-----------------------------------------------------------------------------
(* Case documents and payment events *)

Servers == {"part_004", "part_006"}

PayCases == {"abc123"}

NoTicket ==
  [exists |-> FALSE, status |-> Missing, email |-> NoEmail,
   extractedEmail |-> NoEmail,
   paymentStatus |-> Missing, caseStatus |-> Missing, statusHistory |-> <<>>]

EventTypes ==
  {"checkout.session.completed", "checkout.session.async_payment_failed",
   "payment_intent.payment_failed", "checkout.session.expired"}

FailureEvents ==
  {"checkout.session.async_payment_failed", "payment_intent.payment_failed",
   "checkout.session.expired"}

\* a payment event: ref is the case reference the provider carries
\* (client_reference_id of a checkout session, metadata.firebaseSessionId of
\* a payment intent), paid is payment_status = 'paid', email the address the
\* provider supplies (customer_email, receipt_email, billing details)
PaymentEvent(type, ref, paid, email) ==
  [type |-> type, ref |-> ref, paid |-> paid, email |-> email]

PaymentEvents ==
  {PaymentEvent(ty, r, pd, e) :
     ty \in EventTypes, r \in PayCases \cup {Missing}, pd \in BOOLEAN,
     e \in {NoEmail, GoodEmail}}

\* the handling of one event: where its code stands, what it read (data) and
\* resolved (email), and as history the case as the event found it (before),
\* the paymentStatus it wrote and the calls it made
IdleJob ==
  [pc |-> "idle", type |-> Missing, ref |-> Missing, paid |-> FALSE,
   evEmail |-> NoEmail, data |-> NoTicket, email |-> NoEmail,
   reads |-> 0, writes |-> 0, emailAttempts |-> 0, emailsAccepted |-> 0,
   alertCalls |-> 0, alerts |-> 0, acked |-> FALSE, loggedTo |-> NoEmail,
   before |-> NoTicket, wrote |-> Missing, failedCalls |-> 0,
   verified |-> FALSE, answer |-> Missing,
   again |-> FALSE, sentBefore |-> 0]

-----------------------------------------------------------------------------
(* Listener: start, stop, handleListenerError *)

\* the state after construction, for the deployed snapshots N of the
\* Notifier and S of the server, and an address of A at hand
InitState(N, S, A) ==
  /\ notifier \in N
  /\ now = 0
  /\ isActive = FALSE
  /\ unsubscribe = 0
  /\ feedLive = FALSE
  /\ subscriptions = 0
  /\ restartTimers = 0
  /\ processingIds = {}
  /\ rateLimit = [c \in Cases |-> <<>>]
  /\ dispatchLog = [c \in Cases |-> <<>>]
  /\ immediateQ = <<>>
  /\ task = [s \in Slots |-> FreeTask]
  /\ server \in S
  /\ tickets = [c \in PayCases |-> NoTicket]
  /\ job = IdleJob
  /\ checkout = "idle"
  /\ cleanupDue = NotArmed
  /\ maskArg \in A
  /\ maskResult = NotCalled
  /\ skipped = {}
  /\ stopRequested = FALSE

InitWith(N, S) == InitState(N, S, {NoEmail})

Init == InitWith(Notifiers, {"part_006"})

\* the listener as start() and stop() see it
ListenerState == <<isActive, unsubscribe, feedLive, subscriptions>>

\* faulty variant: start() does not look at isActive
StartEffect_NoGuard(st, subscribed) ==
  IF subscribed THEN <<TRUE, 1, TRUE, st[4] + 1>> ELSE st

\* start() on the listener st: nothing when already active; otherwise
\* onSnapshot either returns a handle or throws before anything is assigned.
StartEffect(st, subscribed) ==
  IF st[1] THEN st
  ELSE IF subscribed THEN <<TRUE, 1, TRUE, st[4] + 1>>
  ELSE st

\* stop(): the held handle, if any, is called and dropped
StopEffect ==
  IF unsubscribe # 0 THEN <<FALSE, 0, FALSE, subscriptions - 1>>
                     ELSE <<FALSE, 0, feedLive, subscriptions>>

\* start() arms setInterval(cleanupRateLimits, 1 h) once it has subscribed;
\* no interval is ever cleared, and the one that runs first is kept here
ArmCleanup(st, subscribed) ==
  IF ~st[1] /\ subscribed /\ cleanupDue = NotArmed
    THEN now + CleanupIntervalMs ELSE cleanupDue

Start ==
  /\ \E subscribed \in BOOLEAN :
       LET e == StartEffect(ListenerState, subscribed)
       IN /\ isActive' = e[1] /\ unsubscribe' = e[2]
          /\ feedLive' = e[3] /\ subscriptions' = e[4]
          /\ cleanupDue' = ArmCleanup(ListenerState, subscribed)
  /\ stopRequested' = FALSE
  /\ UNCHANGED <<paymentVars, notifier, skipped, maskVars, now, restartTimers, detectorVars>>

Stop ==
  /\ isActive' = StopEffect[1] /\ unsubscribe' = StopEffect[2]
  /\ feedLive' = StopEffect[3] /\ subscriptions' = StopEffect[4]
  /\ stopRequested' = TRUE
  /\ UNCHANGED <<paymentVars, notifier, skipped, maskVars, cleanupDue, now, restartTimers, detectorVars>>

\* the change feed reports an error to handleListenerError, which arms the
\* restart timer; the errored subscription delivers nothing more
FeedError ==
  /\ feedLive
  /\ restartTimers < MaxRestartTimers
  /\ restartTimers' = restartTimers + 1
  /\ feedLive' = FALSE
  /\ UNCHANGED <<paymentVars, notifier, skipped, maskVars, cleanupDue, now, isActive, unsubscribe, subscriptions,
                 stopRequested, detectorVars>>

\* the timer callback: this.stop(); this.start().catch(...)
RestartTimerFires ==
  /\ restartTimers > 0
  /\ restartTimers' = restartTimers - 1
  /\ \E subscribed \in BOOLEAN :
       LET e == StartEffect(StopEffect, subscribed)
       IN /\ isActive' = e[1] /\ unsubscribe' = e[2]
          /\ feedLive' = e[3] /\ subscriptions' = e[4]
          /\ cleanupDue' = ArmCleanup(StopEffect, subscribed)
  /\ UNCHANGED stopRequested
  /\ UNCHANGED <<paymentVars, notifier, skipped, maskVars, now, detectorVars>>

Tick ==
  /\ now + TickMs <= MaxNow
  /\ now' = now + TickMs
  /\ UNCHANGED <<paymentVars, notifier, skipped, maskVars, cleanupDue, listenerVars, detectorVars>>

\* an hour goes by with nothing else happening
HourPasses ==
  /\ now + CleanupIntervalMs <= MaxHours * CleanupIntervalMs + MaxNow
  /\ now' = now + CleanupIntervalMs
  /\ UNCHANGED <<paymentVars, notifier, skipped, maskVars, cleanupDue, listenerVars, detectorVars>>

\* the interval armed by start() runs cleanupRateLimits, and is due again an
\* hour later
CleanupRateLimits ==
  /\ cleanupDue # NotArmed
  /\ now >= cleanupDue
  /\ rateLimit' = cleanupRateLimits(rateLimit, now)
  /\ cleanupDue' = cleanupDue + CleanupIntervalMs
  /\ UNCHANGED <<paymentVars, notifier, skipped, maskVars, now, listenerVars,
                 processingIds, dispatchLog, immediateQ, task>>

-----------------------------------------------------------------------------
(* Detector: handleSnapshot, processStatusChange *)

QueuedTask(ch) ==
  [FreeTask EXCEPT !.pc = "queued", !.type = ch.type, !.caseId = ch.id, !.readThrows = ch.readThrows,
                   !.oldStatus = ch.oldStatus, !.newStatus = ch.newStatus,
                   !.email = ch.email]

\* change.type === 'modified'
IsModified(ch) == ch.type = "modified"

\* the forEach body of handleSnapshot for one change: only "modified" is
\* handed to setImmediate.  `slots` are the task records that may be used.
Deliver(ch, slots) ==
  IF IsModified(ch)
    THEN /\ FreeSlots \cap slots # {}
         /\ LET s == CHOOSE x \in FreeSlots \cap slots :
                        \A u \in FreeSlots \cap slots : x <= u
            IN /\ task' = [task EXCEPT ![s] = QueuedTask(ch)]
               /\ immediateQ' = Append(immediateQ, s)
         /\ UNCHANGED skipped
    ELSE /\ skipped' = skipped \cup {ch.type}
         /\ UNCHANGED <<task, immediateQ>>

\* handleSnapshot on a batch of one change
HandleSnapshot(ch, slots) ==
  /\ feedLive
  /\ Deliver(ch, slots)
  /\ UNCHANGED <<paymentVars, notifier, maskVars, cleanupDue, now, listenerVars, processingIds, rateLimit, dispatchLog>>

\* faulty variant: a rejected second round ends without sendAdminAlert
Rejected_NoAlert(t, msg) ==
  IF t.round = 1
    THEN [t EXCEPT !.pc = "wait5", !.delay = RetryDelayMs]
    ELSE [t EXCEPT !.pc = "done", !.delay = 0]

\* sendNotificationsAsync's promise rejects (second round) and the .catch of
\* processStatusChange calls sendAdminAlert; or the first round threw and the
\* 5 s timer is armed
Rejected(t, msg) ==
  IF t.round = 1
    THEN [t EXCEPT !.pc = "wait5", !.delay = RetryDelayMs]
    ELSE [t EXCEPT !.pc = "alerting", !.delay = 0, !.alertCalls = @ + 1,
                   !.alertCase = t.caseId, !.alertError = msg]

\* faulty variant: the loop runs one attempt more than maxRetries
AttemptFailed_OneMore(t, msg) ==
  IF t.attempt = MaxRetries + 1
    THEN [t EXCEPT !.pc = "alerting", !.delay = 0, !.alertCalls = @ + 1,
                   !.alertCase = t.caseId, !.alertError = msg]
    ELSE [t EXCEPT !.pc = "backoff", !.delay = 1000]

\* the catch block of sendEmailWithRetry
AttemptFailed(t, msg) ==
  IF t.attempt = MaxRetries
    THEN Rejected(t, ExhaustedError(notifier, msg))
    ELSE [t EXCEPT !.pc = "backoff", !.delay = Backoff(notifier, t.attempt)]

\* one pass of the loop of sendEmailWithRetry up to its await
StartAttempt(t, k) ==
  LET u == [t EXCEPT !.attempt = k, !.delay = 0]
      err == validateEmailData(notifier, t.email)
  IN IF err # Missing
       THEN AttemptFailed(u, err)
       ELSE [u EXCEPT !.pc = "email", !.gwCalls = @ + 1]

\* sendForStatus up to its first await
CallSendForStatus(t, r) ==
  LET u == [t EXCEPT !.round = r, !.attempt = 0, !.delay = 0]
      err == validateInputs(notifier, t.newStatus, t.email, t.caseId)
  IN IF err # Missing THEN Rejected(u, err) ELSE StartAttempt(u, 1)

\* faulty variant: the ID is not removed when the try block is left
LeaveTry_NoFinally(ids, c) == ids \cup {c}

\* processingIds once the try block entered for case c (processingIds.add)
\* is left by a return or an exception (finally: processingIds.delete)
LeaveTry(ids, c) == (ids \cup {c}) \ {c}

\* processStatusChange from its entry to its first await or its return
ProcessStatusChange ==
  /\ immediateQ # <<>>
  /\ LET s == Head(immediateQ)
         t == task[s]
         c == t.caseId
     IN /\ immediateQ' = Tail(immediateQ)
        /\ IF AlreadyProcessing(c)
             THEN /\ task' = [task EXCEPT ![s] = [t EXCEPT !.pc = "done", !.outcome = "skipped"]]
                  /\ UNCHANGED processingIds
           ELSE IF isRateLimited(c)
             THEN /\ task' = [task EXCEPT ![s] = [t EXCEPT !.pc = "done", !.outcome = "rate_limited"]]
                  /\ UNCHANGED processingIds
           ELSE IF t.readThrows
             THEN \* catch: sendAdminAlert (not awaited); finally: delete
                  /\ task' = [task EXCEPT ![s] =
                        [t EXCEPT !.pc = "alerting", !.outcome = "threw",
                                  !.alertCalls = @ + 1, !.alertCase = c,
                                  !.alertError = "TypeError"]]
                  /\ processingIds' = LeaveTry(processingIds, c)
           ELSE IF ~isValidStatusChange(t.oldStatus, t.newStatus, t.email)
             THEN /\ task' = [task EXCEPT ![s] = [t EXCEPT !.pc = "done", !.outcome = "invalid"]]
                  /\ processingIds' = LeaveTry(processingIds, c)
           ELSE /\ task' = [task EXCEPT ![s] = [t EXCEPT !.pc = "logging"]]
                /\ processingIds' = processingIds \cup {c}
  /\ UNCHANGED <<paymentVars, notifier, skipped, maskVars, cleanupDue, now, listenerVars, rateLimit, dispatchLog>>

\* faulty variant: a failed audit-log write is not caught by logStatusChange
\* and ends in the catch block of processStatusChange
LogStatusChangeDone_FailureStops(s, ok) ==
  /\ task[s].pc = "logging"
  /\ LET t == task[s]
         c == t.caseId
         u == [t EXCEPT !.audit = @ + 1, !.outcome = "dispatched", !.stamps = @ + 1]
     IN IF ok
          THEN /\ task' = [task EXCEPT ![s] = CallSendForStatus(u, 1)]
               /\ rateLimit' = [rateLimit EXCEPT ![c] = Append(@, now)]
               /\ dispatchLog' = [dispatchLog EXCEPT ![c] = Append(@, now)]
               /\ processingIds' = processingIds \ {c}
          ELSE /\ task' = [task EXCEPT ![s] =
                    [t EXCEPT !.pc = "alerting", !.outcome = "threw",
                              !.alertCalls = @ + 1, !.alertCase = c,
                              !.alertError = "store error"]]
               /\ processingIds' = processingIds \ {c}
               /\ UNCHANGED <<rateLimit, dispatchLog>>
  /\ UNCHANGED <<paymentVars, notifier, skipped, maskVars, cleanupDue, now, listenerVars, immediateQ>>

\* the write of logStatusChange settles (a failure is swallowed); then
\* sendNotificationsAsync is called and not awaited, updateRateLimit,
\* finally: processingIds.delete
LogStatusChangeDone(s, ok) ==
  /\ task[s].pc = "logging"
  /\ LET t == task[s]
         c == t.caseId
         u == [t EXCEPT !.audit = @ + (IF ok THEN 1 ELSE 0), !.outcome = "dispatched",
                        !.stamps = @ + 1]
     IN /\ task' = [task EXCEPT ![s] = CallSendForStatus(u, 1)]
        /\ rateLimit' = [rateLimit EXCEPT ![c] = Append(@, now)]
        /\ dispatchLog' = [dispatchLog EXCEPT ![c] = Append(@, now)]
        /\ processingIds' = LeaveTry(processingIds, c)
  /\ UNCHANGED <<paymentVars, notifier, skipped, maskVars, cleanupDue, now, listenerVars, immediateQ>>

-----------------------------------------------------------------------------
(* Notifier: sendForStatus after its awaits *)

\* after the email: sendSms awaits nothing (it logs the text it would send)
\* and reads only the configuration prepareEmailData has read before the
\* email, so it is no step here; then the review request for a dismissed
\* case (scheduledFor is computed before its write is awaited), then the
\* notification log
AfterEmail(t) ==
  IF t.newStatus = "case_dismissed"
    THEN [t EXCEPT !.pc = "schedule", !.scheduledFor = now + ReviewDelayMs]
    ELSE [t EXCEPT !.pc = "lognotif"]

\* brevoService.sendTransactionalEmail settles: the gateway accepted the
\* email, or the call returned a result that reports a failure (the result
\* of the await is not looked at), or the call threw the error res
GatewayReturns(s, res) ==
  /\ task[s].pc = "email"
  /\ LET t == task[s]
     IN task' = [task EXCEPT ![s] =
          IF res = "accepted"
            THEN AfterEmail([t EXCEPT !.accepted = @ + 1])
          ELSE IF res \in ReportedFailures
            THEN AfterEmail(t)
            ELSE AttemptFailed([t EXCEPT !.lastGwError = res], res)]
  /\ UNCHANGED <<paymentVars, notifier, skipped, maskVars, cleanupDue, now, listenerVars, processingIds, rateLimit, dispatchLog, immediateQ>>

BackoffElapsed(s) ==
  /\ task[s].pc = "backoff"
  /\ task' = [task EXCEPT ![s] = StartAttempt(task[s], task[s].attempt + 1)]
  /\ UNCHANGED <<paymentVars, notifier, skipped, maskVars, cleanupDue, now, listenerVars, processingIds, rateLimit, dispatchLog, immediateQ>>

\* scheduleReviewRequest: a failed write is rethrown (part_003) or never caught
\* (part_002)
AfterSchedule(t, ok) ==
  IF ok THEN [t EXCEPT !.pc = "lognotif", !.reviews = @ + 1]
        ELSE Rejected(t, "store error")

ScheduleReviewDone(s, ok) ==
  /\ task[s].pc = "schedule"
  /\ task' = [task EXCEPT ![s] = AfterSchedule(task[s], ok)]
  /\ UNCHANGED <<paymentVars, notifier, skipped, maskVars, cleanupDue, now, listenerVars, processingIds, rateLimit, dispatchLog, immediateQ>>

\* logNotification: part_003 swallows a failed write, part_002 does not
AfterLogNotification(t, ok) ==
  IF ok THEN [t EXCEPT !.pc = "done", !.notifLogs = @ + 1,
                       !.loggedEmail = maskEmail(notifier, t.email)]
  ELSE IF notifier = "part_003" THEN [t EXCEPT !.pc = "done"]
  ELSE Rejected(t, "store error")

LogNotificationDone(s, ok) ==
  /\ task[s].pc = "lognotif"
  /\ task' = [task EXCEPT ![s] = AfterLogNotification(task[s], ok)]
  /\ UNCHANGED <<paymentVars, notifier, skipped, maskVars, cleanupDue, now, listenerVars, processingIds, rateLimit, dispatchLog, immediateQ>>

\* the 5 s timer of sendNotificationsAsync: sendForStatus is called again
RetryTimerFires(s) ==
  /\ task[s].pc = "wait5"
  /\ task' = [task EXCEPT ![s] = CallSendForStatus(task[s], 2)]
  /\ UNCHANGED <<paymentVars, notifier, skipped, maskVars, cleanupDue, now, listenerVars, processingIds, rateLimit, dispatchLog, immediateQ>>

\* sendAdminAlert: the write to admin_alerts settles; a failure is swallowed
AfterAdminAlert(t, ok) ==
  [t EXCEPT !.pc = "done", !.alerts = @ + (IF ok THEN 1 ELSE 0)]

\* faulty variant: a failed alert write is handed to handleListenerError
AlertFailure_ToListener(ok) ==
  IF ok THEN UNCHANGED listenerVars
        ELSE /\ restartTimers' = restartTimers + 1
             /\ UNCHANGED <<isActive, unsubscribe, feedLive, subscriptions, stopRequested>>

\* the catch of sendAdminAlert logs and returns: the listener is untouched
SwallowAlertFailure(ok) == UNCHANGED listenerVars

SendAdminAlertDone(s, ok) ==
  /\ task[s].pc = "alerting"
  /\ task' = [task EXCEPT ![s] = AfterAdminAlert(task[s], ok)]
  /\ SwallowAlertFailure(ok)
  /\ UNCHANGED <<paymentVars, notifier, skipped, maskVars, cleanupDue, now, processingIds, rateLimit, dispatchLog, immediateQ>>

\* the change is finished; its record is reused
Retire(s) ==
  /\ task[s].pc = "done"
  /\ task' = [task EXCEPT ![s] = FreeTask]
  /\ UNCHANGED <<paymentVars, notifier, skipped, maskVars, cleanupDue, now, listenerVars, processingIds, rateLimit, dispatchLog, immediateQ>>

-----------------------------------------------------------------------------
(* Specifications: the same program under several environments *)

StoreResults == BOOLEAN
GatewayResults == {"accepted"} \cup GatewayErrors

\* every step of the Notifier and of sendAdminAlert, with every outcome of
\* the gateway and of the store
NotifierSteps ==
  \/ \E s \in Slots, res \in GatewayResults : GatewayReturns(s, res)
  \/ \E s \in Slots : BackoffElapsed(s)
  \/ \E s \in Slots, ok \in StoreResults : ScheduleReviewDone(s, ok)
  \/ \E s \in Slots, ok \in StoreResults : LogNotificationDone(s, ok)
  \/ \E s \in Slots : RetryTimerFires(s)
  \/ \E s \in Slots, ok \in StoreResults : SendAdminAlertDone(s, ok)

\* Spec: one change at a time, every modified change, every outcome
Next ==
  \/ Start
  \/ \E ch \in ModifiedChanges : HandleSnapshot(ch, {1})
  \/ ProcessStatusChange
  \/ \E s \in Slots, ok \in StoreResults : LogStatusChangeDone(s, ok)
  \/ NotifierSteps
  \/ \E s \in Slots : Retire(s)

Spec == Init /\ [][Next]_vars


\* SpecConcurrent: as many changes as there are task records, in flight at
\* once, for the same or for different cases
ConcurrentChanges ==
  {Change("modified", id, rt, "approval_pending", n, GoodEmail) :
     id \in Cases, rt \in BOOLEAN, n \in {"bogus_status", "case_approved"}}

NextConcurrent ==
  \/ Start
  \/ \E ch \in ConcurrentChanges : HandleSnapshot(ch, Slots)
  \/ ProcessStatusChange
  \/ \E s \in Slots, ok \in StoreResults : LogStatusChangeDone(s, ok)
  \/ \E s \in Slots, res \in {"accepted", "ECONNRESET"} : GatewayReturns(s, res)
  \/ \E s \in Slots : BackoffElapsed(s)
  \/ \E s \in Slots, ok \in StoreResults : LogNotificationDone(s, ok)
  \/ \E s \in Slots : RetryTimerFires(s)
  \/ \E s \in Slots, ok \in StoreResults : SendAdminAlertDone(s, ok)

SpecConcurrent == Init /\ [][NextConcurrent]_vars


\* SpecRate: the rate limiter of one case over time; the gateway accepts
\* and the store writes succeed, so that records are reused quickly
RateChanges ==
  {Change("modified", "abc123", rt, "approval_pending", n, GoodEmail) :
     rt \in BOOLEAN, n \in {"bogus_status", "case_approved"}}

NextRate ==
  \/ Start
  \/ Tick
  \/ \E ch \in RateChanges : HandleSnapshot(ch, Slots)
  \/ ProcessStatusChange
  \/ \E s \in Slots : LogStatusChangeDone(s, TRUE)
  \/ \E s \in Slots : GatewayReturns(s, "accepted")
  \/ \E s \in Slots : LogNotificationDone(s, TRUE)
  \/ \E s \in Slots : SendAdminAlertDone(s, TRUE)
  \/ \E s \in Slots : Retire(s)

SpecRate == Init /\ [][NextRate]_vars

\* SpecLive: one change at a time; every promise settles and every timer
\* fires
LiveChanges ==
  {Change("modified", id, rt, "approval_pending", "case_dismissed", GoodEmail) :
     id \in Cases, rt \in BOOLEAN}

\* the steps of the change held in record s, once it is dequeued
TaskStep(s) ==
  \/ \E ok \in StoreResults : LogStatusChangeDone(s, ok)
  \/ \E res \in GatewayResults : GatewayReturns(s, res)
  \/ BackoffElapsed(s)
  \/ \E ok \in StoreResults : ScheduleReviewDone(s, ok)
  \/ \E ok \in StoreResults : LogNotificationDone(s, ok)
  \/ RetryTimerFires(s)
  \/ \E ok \in StoreResults : SendAdminAlertDone(s, ok)

NextLive ==
  \/ Start
  \/ \E ch \in LiveChanges : HandleSnapshot(ch, {1})
  \/ ProcessStatusChange
  \/ \E s \in Slots : TaskStep(s)
  \/ \E s \in Slots : Retire(s)

SpecLive ==
  /\ Init
  /\ [][NextLive]_vars
  /\ WF_vars(ProcessStatusChange)
  /\ \A s \in Slots : WF_vars(TaskStep(s))

\* SpecIndependent: valid transitions of two cases, two in flight at a time,
\* the store and the gateway answering well, until the limiter holds
IndependentChanges ==
  {Change("modified", id, FALSE, "approval_pending", "case_approved", GoodEmail) :
     id \in Cases}

NextIndependent ==
  \/ Start
  \/ \E ch \in IndependentChanges : HandleSnapshot(ch, Slots)
  \/ ProcessStatusChange
  \/ \E s \in Slots : LogStatusChangeDone(s, TRUE)
  \/ \E s \in Slots : GatewayReturns(s, "accepted")
  \/ \E s \in Slots : LogNotificationDone(s, TRUE)
  \/ \E s \in Slots : Retire(s)

SpecIndependent == Init /\ [][NextIndependent]_vars

\* SpecGateway: one change at a time against a gateway that reports a failed
\* send by throwing or through its result value
GatewayChanges ==
  {Change("modified", id, FALSE, "approval_pending", n, GoodEmail) :
     id \in Cases, n \in {"case_approved", "case_dismissed"}}

NextGateway ==
  \/ Start
  \/ \E ch \in GatewayChanges : HandleSnapshot(ch, {1})
  \/ ProcessStatusChange
  \/ \E s \in Slots, ok \in StoreResults : LogStatusChangeDone(s, ok)
  \/ \E s \in Slots, res \in GatewayResults \cup ReportedFailures : GatewayReturns(s, res)
  \/ \E s \in Slots : BackoffElapsed(s)
  \/ \E s \in Slots, ok \in StoreResults : ScheduleReviewDone(s, ok)
  \/ \E s \in Slots, ok \in StoreResults : LogNotificationDone(s, ok)
  \/ \E s \in Slots : RetryTimerFires(s)
  \/ \E s \in Slots, ok \in StoreResults : SendAdminAlertDone(s, ok)
  \/ \E s \in Slots : Retire(s)

SpecGateway == Init /\ [][NextGateway]_vars

\* SpecCleanup: the rate limiter of one case over minutes and hours, with the
\* hourly cleanup; the gateway accepts and the store writes succeed
CleanupChanges ==
  {Change("modified", "abc123", FALSE, "approval_pending", "case_approved", GoodEmail)}

NextCleanup ==
  \/ Start
  \/ Tick
  \/ HourPasses
  \/ CleanupRateLimits
  \/ \E ch \in CleanupChanges : HandleSnapshot(ch, Slots)
  \/ ProcessStatusChange
  \/ \E s \in Slots : LogStatusChangeDone(s, TRUE)
  \/ \E s \in Slots : GatewayReturns(s, "accepted")
  \/ \E s \in Slots : LogNotificationDone(s, TRUE)
  \/ \E s \in Slots : Retire(s)

SpecCleanup == Init /\ [][NextCleanup]_vars

\* SpecFilter: one change at a time, of every kind, with and without a
\* change of caseStatus, every outcome of the store
FilterChanges ==
  OtherChanges \cup
  {Change("modified", id, rt, o, n, e) :
     id \in Cases, rt \in BOOLEAN,
     o \in {Missing, "approval_pending"},
     n \in {Missing, "approval_pending", "case_approved"},
     e \in {NoEmail, GoodEmail}}

NextFilter ==
  \/ Start
  \/ \E ch \in FilterChanges : HandleSnapshot(ch, {1})
  \/ ProcessStatusChange
  \/ \E s \in Slots, ok \in StoreResults : LogStatusChangeDone(s, ok)
  \/ \E s \in Slots : GatewayReturns(s, "accepted")
  \/ \E s \in Slots, ok \in StoreResults : LogNotificationDone(s, ok)
  \/ \E s \in Slots : RetryTimerFires(s)
  \/ \E s \in Slots, ok \in StoreResults : SendAdminAlertDone(s, ok)
  \/ \E s \in Slots : Retire(s)

SpecFilter == Init /\ [][NextFilter]_vars

\* SpecListener: the listener's life (start, stop, feed errors, restarts)
\* around one change at a time that fails in every way a pipeline can
ListenerChanges ==
  {Change("modified", "abc123", FALSE, "approval_pending", n, e) :
     n \in {"bogus_status", "case_dismissed"}, e \in {BadEmail, GoodEmail}}
  \cup {Change("modified", "abc123", TRUE, "approval_pending", "case_dismissed", GoodEmail)}

NextListener ==
  \/ Start
  \/ Stop
  \/ FeedError
  \/ RestartTimerFires
  \/ \E ch \in ListenerChanges : HandleSnapshot(ch, {1})
  \/ ProcessStatusChange
  \/ \E s \in Slots, ok \in StoreResults : LogStatusChangeDone(s, ok)
  \/ NotifierSteps
  \/ \E s \in Slots : Retire(s)

SpecListener == Init /\ [][NextListener]_vars

-----------------------------------------------------------------------------
(* Case writers: saveToFirestore, /update-ticket, /api/create-payment-session *)

\* a || b of two strings
FirstNonEmpty(a, b) == IF a # NoEmail THEN a ELSE b

\* saveToFirestore: set(..., {merge: true}) replaces the fields it names,
\* statusHistory included, and keeps the others (paymentStatus); the data of
\* a manual form carries the form's email, an extraction carries none
saveToFirestore(t, dataSource, email) ==
  [t EXCEPT !.exists = TRUE,
            !.status = IF dataSource = "manual_form" THEN "completed" ELSE "extracted",
            !.email = email,
            !.extractedEmail = IF dataSource = "manual_form" THEN email ELSE @,
            !.caseStatus = "approval_pending",
            !.statusHistory = <<"approval_pending">>]

\* POST /extract-data for a session that is not completed: the extraction is
\* saved; a failed write changes nothing
ExtractData(c, email, ok) ==
  /\ ~(tickets[c].exists /\ tickets[c].status = "completed")
  /\ tickets' = [tickets EXCEPT ![c] =
       IF ok THEN saveToFirestore(@, "ai_extraction", email) ELSE @]
  /\ UNCHANGED <<server, job, checkout, notifier, skipped, maskVars, cleanupDue, now, listenerVars, detectorVars>>

\* POST /submit-manual-form: a session is created for the form and saved
SubmitManualForm(c, ok) ==
  /\ ~tickets[c].exists
  /\ tickets' = [tickets EXCEPT ![c] =
       IF ok THEN saveToFirestore(@, "manual_form", GoodEmail) ELSE @]
  /\ UNCHANGED <<server, job, checkout, notifier, skipped, maskVars, cleanupDue, now, listenerVars, detectorVars>>

\* finalEmail of /update-ticket in part_004
finalEmail(t, email) ==
  FirstNonEmpty(email, FirstNonEmpty(t.email, t.extractedEmail))

\* POST /update-ticket: the missing fields (here the email, when the form
\* has it) are written into extractedData and the ticket is completed;
\* part_004 also keeps a root-level email and extractedData.email in step
UpdateTicket(c, email, ok) ==
  /\ tickets[c].exists
  /\ tickets[c].status # "completed"
  /\ tickets' = [tickets EXCEPT ![c] =
       IF ~ok THEN @
       ELSE IF server = "part_004"
         THEN [@ EXCEPT !.status = "completed",
                        !.email = finalEmail(tickets[c], email),
                        !.extractedEmail = finalEmail(tickets[c], email)]
         ELSE [@ EXCEPT !.status = "completed",
                        !.extractedEmail = FirstNonEmpty(email, @)]]
  /\ UNCHANGED <<server, job, checkout, notifier, skipped, maskVars, cleanupDue, now, listenerVars, detectorVars>>

\* POST /api/create-payment-session up to the call of the payment provider
CreatePaymentSessionRead(c) ==
  /\ checkout = "idle"
  /\ tickets[c].exists
  /\ tickets[c].paymentStatus # "paid"
  /\ tickets[c].status \in {"extracted", "completed"}
  /\ checkout' = "creating"
  /\ UNCHANGED <<server, tickets, job, notifier, skipped, maskVars, cleanupDue, now, listenerVars, detectorVars>>

\* the provider call settles; when it and the write succeed the case is
\* pending
CreatePaymentSessionWrite(c, ok) ==
  /\ checkout = "creating"
  /\ checkout' = "idle"
  /\ tickets' = [tickets EXCEPT ![c] =
       IF ok THEN [@ EXCEPT !.paymentStatus = "pending"] ELSE @]
  /\ UNCHANGED <<server, job, notifier, skipped, maskVars, cleanupDue, now, listenerVars, detectorVars>>

-----------------------------------------------------------------------------
(* Payment reconciler: POST /api/stripe-webhook *)

\* session.client_reference_id: a payment intent has none
ClientReferenceId(j) ==
  IF j.type = "payment_intent.payment_failed" THEN Missing ELSE j.ref

\* the case reference the handler of the deployed server looks at
CaseReference(j) ==
  IF server = "part_004" THEN ClientReferenceId(j) ELSE j.ref

\* the awaits of the running handler sit inside a try block
InsideTry(j) ==
  ~(server = "part_006" /\ j.type = "payment_intent.payment_failed")

\* res.json({ received: true })
Ack(j) == [j EXCEPT !.pc = "done", !.acked = TRUE, !.answer = "received"]

\* a store call rejected: the catch block logs it, or (handlePaymentIntentFailed)
\* the rejection leaves the route handler
StoreFailed(j) ==
  LET k == [j EXCEPT !.failedCalls = @ + 1]
  IN IF InsideTry(j) THEN Ack(k) ELSE [k EXCEPT !.pc = "done"]

\* ticketRef.get() is issued
IssueGet(j) == [j EXCEPT !.pc = "get", !.reads = @ + 1]

\* faulty variant: a failure event without a case reference still raises an
\* alert
Dispatch_AlertWithoutCase(j) ==
  IF j.type = "checkout.session.expired" THEN Ack(j)
  ELSE IF j.type = "checkout.session.completed"
    THEN IF server = "part_006" /\ ~j.paid THEN Ack(j)
         ELSE IF CaseReference(j) = Missing THEN Ack(j)
         ELSE [j EXCEPT !.pc = "get", !.reads = @ + 1]
  ELSE IF CaseReference(j) = Missing
    THEN [j EXCEPT !.pc = "alert", !.alertCalls = @ + 1]
  ELSE IF server = "part_006" /\ j.type = "payment_intent.payment_failed"
          /\ j.evEmail = NoEmail THEN Ack(j)
  ELSE [j EXCEPT !.pc = "get", !.reads = @ + 1]

\* the switch of the route handler up to the first await
Dispatch(j) ==
  IF j.type = "checkout.session.expired" THEN Ack(j)
  ELSE IF j.type = "checkout.session.completed"
    THEN IF server = "part_006" /\ ~j.paid THEN Ack(j)
         ELSE IF CaseReference(j) = Missing THEN Ack(j)  \* doc() throws in the try
         ELSE IssueGet(j)
  ELSE IF j.type = "checkout.session.async_payment_failed"
    THEN IF CaseReference(j) = Missing THEN Ack(j) ELSE IssueGet(j)
  ELSE \* payment_intent.payment_failed
    IF CaseReference(j) = Missing THEN Ack(j)
    ELSE IF server = "part_006" /\ j.evEmail = NoEmail THEN Ack(j)
    ELSE IssueGet(j)

\* history: the provider delivers once more the event that was handled last
\* and whose update of the case was written
Redelivered(j, ev) ==
  /\ j.pc = "done" /\ j.verified /\ j.wrote = "paid"
  /\ j.type = ev.type /\ j.ref = ev.ref /\ j.paid = ev.paid /\ j.evEmail = ev.email

\* a verified event arrives while no other is being handled
Webhook(ev) ==
  /\ job.pc \in {"idle", "done"}
  /\ \A c \in PayCases : Len(tickets[c].statusHistory) < MaxHistory
  /\ job' = Dispatch([IdleJob EXCEPT
                 !.verified = TRUE,
                 !.again = Redelivered(job, ev),
                 !.sentBefore = IF Redelivered(job, ev) THEN job.emailsAccepted ELSE 0,
                 !.type = ev.type, !.ref = ev.ref, !.paid = ev.paid,
                 !.evEmail = ev.email,
                 !.before = IF ev.ref # Missing THEN tickets[ev.ref] ELSE NoTicket])
  /\ UNCHANGED <<server, tickets, checkout, notifier, skipped, maskVars, cleanupDue, now, listenerVars, detectorVars>>

\* a request whose signature constructEvent does not accept: 400, and the
\* event is not looked at
WebhookUnverified ==
  /\ job.pc \in {"idle", "done"}
  /\ job' = [IdleJob EXCEPT !.pc = "done", !.answer = "400"]
  /\ UNCHANGED <<server, tickets, checkout, notifier, skipped, maskVars, cleanupDue, now, listenerVars, detectorVars>>

\* the contact email the handler resolves from the event and the document
ResolveEmail(j, data) ==
  IF server = "part_004"
    THEN IF j.type = "checkout.session.completed" THEN data.email
         ELSE FirstNonEmpty(data.email, data.extractedEmail)
  ELSE IF j.type = "payment_intent.payment_failed" THEN j.evEmail
  ELSE FirstNonEmpty(j.evEmail, data.email)

\* ticketRef.get() settles
GetReturns(ok) ==
  /\ job.pc = "get"
  /\ LET data == tickets[job.ref]
         j == [job EXCEPT !.data = data, !.email = ResolveEmail(job, data)]
     IN job' =
          IF ~ok THEN StoreFailed(job)
          ELSE IF ~data.exists THEN Ack(job)
          ELSE IF /\ server = "part_006"
                  /\ j.type # "checkout.session.completed"
                  /\ j.email # NoEmail /\ data.email = NoEmail
            THEN [j EXCEPT !.pc = "saveEmail"]
          ELSE [j EXCEPT !.pc = "update"]
  /\ UNCHANGED <<server, tickets, checkout, notifier, skipped, maskVars, cleanupDue, now, listenerVars, detectorVars>>

\* ticketRef.update({ email: customerEmail }) settles
SaveEmailDone(ok) ==
  /\ job.pc = "saveEmail"
  /\ IF ok
       THEN /\ tickets' = [tickets EXCEPT ![job.ref].email = job.email]
            /\ job' = [job EXCEPT !.pc = "update", !.writes = @ + 1]
       ELSE /\ job' = StoreFailed(job)
            /\ UNCHANGED tickets
  /\ UNCHANGED <<server, checkout, notifier, skipped, maskVars, cleanupDue, now, listenerVars, detectorVars>>

\* faulty variant: the history entry is not appended
PaidUpdate_NoHistory(t) ==
  [t EXCEPT !.paymentStatus = "paid", !.caseStatus = "submitted_for_review"]

\* what payment-success handling writes to the case
PaidUpdate(t) ==
  [t EXCEPT !.paymentStatus = "paid",
            !.caseStatus = "submitted_for_review",
            !.statusHistory = Append(@, "payment_received")]

\* what payment-failure handling writes to the case
FailedUpdate(t) ==
  IF server = "part_004"
    THEN [t EXCEPT !.paymentStatus = "failed",
                   !.statusHistory = Append(@, "payment_failed")]
    ELSE [t EXCEPT !.paymentStatus = "failed"]

\* the email request is handed to the gateway
IssueEmail(j) == [j EXCEPT !.pc = "email", !.emailAttempts = @ + 1]

\* the admin_alerts write is issued
IssueAlert(j) == [j EXCEPT !.pc = "alert", !.alertCalls = @ + 1]

\* after the status update of the case
AfterUpdate(j) ==
  IF j.type = "checkout.session.completed"
    THEN IF j.email # NoEmail THEN IssueEmail(j) ELSE Ack(j)
    ELSE IF j.email # NoEmail THEN IssueEmail(j) ELSE IssueAlert(j)

\* the status update of the case settles: what it does to the case and to
\* the handling of the event
UpdateSettles(ok) ==
  /\ job.pc = "update"
  /\ IF ok
       THEN /\ tickets' = [tickets EXCEPT ![job.ref] =
                 IF job.type = "checkout.session.completed"
                   THEN PaidUpdate(@) ELSE FailedUpdate(@)]
            /\ job' = AfterUpdate([job EXCEPT
                 !.writes = @ + 1,
                 !.wrote = IF job.type = "checkout.session.completed"
                             THEN "paid" ELSE "failed"])
       ELSE /\ job' = StoreFailed(job)
            /\ UNCHANGED tickets

\* the status update of the case settles, with no listener on the collection
UpdateDone(ok) ==
  /\ UpdateSettles(ok)
  /\ UNCHANGED <<server, checkout, notifier, skipped, maskVars, cleanupDue, now, listenerVars, detectorVars>>

\* the modified change the tickets collection reports for a written update:
\* the case as it was and as it is
UpdateChange(c, readThrows) ==
  Change("modified", c, readThrows,
         tickets[c].caseStatus, tickets'[c].caseStatus, tickets'[c].email)

\* the status update of the case settles while the Detector of the same
\* process listens to the collection: a written update reaches handleSnapshot
UpdateDoneWatched(ok, readThrows) ==
  /\ UpdateSettles(ok)
  /\ IF ok /\ feedLive
       THEN Deliver(UpdateChange(job.ref, readThrows), {1})
       ELSE UNCHANGED <<task, immediateQ, skipped>>
  /\ UNCHANGED <<server, checkout, notifier, maskVars, cleanupDue, now, listenerVars,
                 processingIds, rateLimit, dispatchLog>>

\* after a rejected email, or after the send log of an accepted one
AfterEmailOutcome(j) ==
  IF j.type = "checkout.session.completed" THEN Ack(j) ELSE IssueAlert(j)

\* the one request to the gateway settles: part_004 logs both outcomes of a
\* success email on the case, the rest log an accepted email only
EmailReturns(accepted) ==
  /\ job.pc = "email"
  /\ job' =
       IF accepted
         THEN [job EXCEPT !.pc = "emailLog", !.emailsAccepted = @ + 1]
       ELSE IF server = "part_004" /\ job.type = "checkout.session.completed"
         THEN [job EXCEPT !.pc = "emailLog"]
       ELSE AfterEmailOutcome(job)
  /\ UNCHANGED <<server, tickets, checkout, notifier, skipped, maskVars, cleanupDue, now, listenerVars, detectorVars>>

\* the recipient as the send log holds it: { to: to, ... }
SendLogTo(to) == to

\* the write of the send log settles; its failure is caught around the email
EmailLogDone(ok) ==
  /\ job.pc = "emailLog"
  /\ job' = AfterEmailOutcome([job EXCEPT !.writes = @ + (IF ok THEN 1 ELSE 0),
                                           !.failedCalls = @ + (IF ok THEN 0 ELSE 1),
                                           !.loggedTo = IF ok THEN SendLogTo(job.email) ELSE @])
  /\ UNCHANGED <<server, tickets, checkout, notifier, skipped, maskVars, cleanupDue, now, listenerVars, detectorVars>>

\* the admin_alerts write settles: part_004 links a created alert to the case
AlertDone(ok) ==
  /\ job.pc = "alert"
  /\ job' =
       IF ~ok THEN Ack([job EXCEPT !.failedCalls = @ + 1])
       ELSE IF server = "part_004" THEN [job EXCEPT !.pc = "link", !.alerts = @ + 1]
       ELSE Ack([job EXCEPT !.alerts = @ + 1])
  /\ UNCHANGED <<server, tickets, checkout, notifier, skipped, maskVars, cleanupDue, now, listenerVars, detectorVars>>

\* ticketRef.update({ adminAlerts: arrayUnion(alertId) }) settles
LinkDone(ok) ==
  /\ job.pc = "link"
  /\ job' = Ack([job EXCEPT !.writes = @ + (IF ok THEN 1 ELSE 0),
                             !.failedCalls = @ + (IF ok THEN 0 ELSE 1)])
  /\ UNCHANGED <<server, tickets, checkout, notifier, skipped, maskVars, cleanupDue, now, listenerVars, detectorVars>>

\* SpecPayment: the case writers and the payment events of one case, one
\* event at a time, with every outcome of the store and of the gateway
InitPayment == InitWith({"part_003"}, Servers)

NextPayment ==
  \/ \E c \in PayCases, e \in {NoEmail, GoodEmail}, ok \in StoreResults : ExtractData(c, e, ok)
  \/ \E c \in PayCases, ok \in StoreResults : SubmitManualForm(c, ok)
  \/ \E c \in PayCases, e \in {NoEmail, GoodEmail}, ok \in StoreResults : UpdateTicket(c, e, ok)
  \/ \E c \in PayCases : CreatePaymentSessionRead(c)
  \/ \E c \in PayCases, ok \in StoreResults : CreatePaymentSessionWrite(c, ok)
  \/ \E ev \in PaymentEvents : Webhook(ev)
  \/ WebhookUnverified
  \/ \E ok \in StoreResults : GetReturns(ok)
  \/ \E ok \in StoreResults : SaveEmailDone(ok)
  \/ \E ok \in StoreResults : UpdateDone(ok)
  \/ \E accepted \in BOOLEAN : EmailReturns(accepted)
  \/ \E ok \in StoreResults : EmailLogDone(ok)
  \/ \E ok \in StoreResults : AlertDone(ok)
  \/ \E ok \in StoreResults : LinkDone(ok)

SpecPayment == InitPayment /\ [][NextPayment]_vars

\* SpecWatched: the payment events of one case while the Detector listens
\* to the tickets collection, one change at a time; the collection also
\* reports the status transitions that staff make
WatchedEvents ==
  {PaymentEvent("checkout.session.completed", "abc123", pd, e) :
     pd \in BOOLEAN, e \in {NoEmail, GoodEmail}}

StaffChanges ==
  {Change("modified", "c2", FALSE, "approval_pending", "case_approved", GoodEmail)}

InitWatched == InitWith(Notifiers, Servers)

NextWatched ==
  \/ Start
  \/ \E c \in PayCases, e \in {NoEmail, GoodEmail} : ExtractData(c, e, TRUE)
  \/ \E ev \in WatchedEvents : Webhook(ev)
  \/ \E ok \in StoreResults : GetReturns(ok)
  \/ \E ok \in StoreResults, rt \in BOOLEAN : UpdateDoneWatched(ok, rt)
  \/ \E ch \in StaffChanges : HandleSnapshot(ch, {1})
  \/ \E accepted \in BOOLEAN : EmailReturns(accepted)
  \/ EmailLogDone(TRUE)
  \/ ProcessStatusChange
  \/ \E s \in Slots : LogStatusChangeDone(s, TRUE)
  \/ \E s \in Slots : GatewayReturns(s, "accepted")
  \/ \E s \in Slots : LogNotificationDone(s, TRUE)
  \/ \E s \in Slots : RetryTimerFires(s)
  \/ \E s \in Slots, ok \in StoreResults : SendAdminAlertDone(s, ok)
  \/ \E s \in Slots : Retire(s)

SpecWatched == InitWatched /\ [][NextWatched]_vars

\* SpecMask: maskEmail of either snapshot on every short string over a few
\* characters and on the address of the documentation
AddressChars == {"a", "b", "@", "."}

JohnDoe == <<"j", "o", "h", "n", "d", "o", "e", "@", "x", ".", "c", "o", "m">>

Addresses ==
  UNION {[1..n -> AddressChars] : n \in 0..MaxAddressLen} \cup {JohnDoe}

InitMask == InitState(Notifiers, {"part_006"}, Addresses)

\* this.maskEmail(email)
CallMaskEmail ==
  /\ ~maskResult.done
  /\ maskResult' = [done |-> TRUE, out |-> maskEmail(notifier, maskArg)]
  /\ UNCHANGED <<paymentVars, notifier, skipped, maskArg, cleanupDue, now, listenerVars, detectorVars>>

NextMask == CallMaskEmail

SpecMask == InitMask /\ [][NextMask]_vars

-----------------------------------------------------------------------------
(* Claims *)

\* a pipeline: from processingIds.add to the end of sendNotificationsAsync
InFlight(s) ==
  task[s].pc \in {"logging", "email", "backoff", "schedule", "lognotif", "wait5"}

Sending(s) ==
  task[s].pc \in {"email", "backoff", "schedule", "lognotif", "wait5"}

\* C1: for every case ID at most one notification pipeline is in flight at
\* any time: no two changes of one case are both between the entry into the
\* processing set and the end of the notification they started.
C1_OnePipelinePerCase ==
  \A s, u \in Slots :
    (s # u /\ InFlight(s) /\ InFlight(u)) => task[s].caseId # task[u].caseId

\* C2: a change dequeued while its case ID is in the processing set is
\* dropped: its record ends with no audit-log entry, no gateway call, no
\* rate-limit timestamp and no Admin Alert, nothing else changes, and it is
\* not queued again.
C2_DroppedWhileProcessing ==
  [][(/\ immediateQ # <<>>
      /\ immediateQ' = Tail(immediateQ)
      /\ task[Head(immediateQ)].caseId \in processingIds)
     => LET s == Head(immediateQ)
        IN /\ task'[s].pc = "done"
           /\ task'[s].audit = 0
           /\ task'[s].gwCalls = 0
           /\ task'[s].stamps = 0
           /\ task'[s].alertCalls = 0
           /\ task'[s].alerts = 0
           /\ \A u \in Slots \ {s} : task'[u] = task[u]
           /\ rateLimit' = rateLimit
           /\ dispatchLog' = dispatchLog
           /\ processingIds' = processingIds
           /\ \A i \in 1..Len(immediateQ') : immediateQ'[i] # s]_vars

\* a change was dropped while another change of its case awaits the audit log
C2_Witness ==
  \E s, u \in Slots :
    /\ s # u
    /\ task[s].pc = "done" /\ task[s].outcome = "skipped"
    /\ task[u].pc = "logging"
    /\ task[u].caseId = task[s].caseId


\* the times the model's clock takes
ClockValues == {k * TickMs : k \in 0..(MaxNow \div TickMs)}

\* the dispatches of case c in the trailing window that ends at t
DispatchedInWindow(c, t) ==
  {i \in 1..Len(dispatchLog[c]) :
     dispatchLog[c][i] > t - RateWindowMs /\ dispatchLog[c][i] <= t}

\* C3: for every case ID and every trailing 60-second window at most 5
\* validated transitions are dispatched to the Notifier; and a change
\* dequeued while 5 recorded timestamps of its case lie within the last 60
\* seconds is dropped with no audit-log entry and no notification.
C3_RateLimit ==
  /\ [](\A c \in Cases, t \in ClockValues :
          Cardinality(DispatchedInWindow(c, t)) <= RateMax)
  /\ [][(/\ immediateQ # <<>>
         /\ immediateQ' = Tail(immediateQ)
         /\ Len(RecentStamps(rateLimit[task[Head(immediateQ)].caseId], now)) >= RateMax)
        => LET s == Head(immediateQ)
           IN /\ task'[s].pc = "done"
              /\ task'[s].audit = 0
              /\ task'[s].gwCalls = 0
              /\ task'[s].stamps = 0
              /\ rateLimit' = rateLimit
              /\ dispatchLog' = dispatchLog]_vars

\* a sixth validated transition of a case was dropped by the limiter, after
\* five of them had been dispatched within the window
C3_Witness ==
  \E s \in Slots :
    /\ task[s].pc = "done" /\ task[s].outcome = "rate_limited"
    /\ isValidStatusChange(task[s].oldStatus, task[s].newStatus, task[s].email)
    /\ Cardinality(DispatchedInWindow(task[s].caseId, now)) = RateMax
    /\ now > 0


\* C4 (as claimed): a change whose new caseStatus is missing or is not one of
\* the six recognized values never reaches the Notifier: no send, no
\* audit-log entry, no rate-limit timestamp and no Admin Alert.
C4_UnknownStatusNoEffect ==
  \A s \in Slots :
    (task[s].pc # "free" /\ task[s].newStatus \notin validStatuses)
      => /\ task[s].round = 0 /\ task[s].gwCalls = 0
         /\ task[s].audit = 0
         /\ task[s].stamps = 0
         /\ task[s].alertCalls = 0 /\ task[s].alerts = 0

\* C4 (amended): such a change never reaches the Notifier, writes no
\* audit-log entry and records no rate-limit timestamp; sendAdminAlert is
\* called for it only when reading the change throws, and then once.
C4_UnknownStatusNoDispatch ==
  \A s \in Slots :
    (task[s].pc # "free" /\ task[s].newStatus \notin validStatuses)
      => /\ task[s].round = 0 /\ task[s].gwCalls = 0
         /\ task[s].audit = 0
         /\ task[s].stamps = 0
         /\ task[s].alertCalls <= 1
         /\ task[s].alertCalls = 1 =>
              (task[s].readThrows /\ task[s].alertError = "TypeError")
         /\ ~task[s].readThrows => (task[s].alertCalls = 0 /\ task[s].alerts = 0)

\* a readable change with an unrecognized status was dropped by the
\* validation of the Detector
C4_Witness ==
  \E s \in Slots :
    /\ task[s].pc = "done" /\ task[s].outcome = "invalid"
    /\ task[s].newStatus = "bogus_status"
    /\ task[s].oldStatus = "approval_pending"
    /\ task[s].email = GoodEmail
    /\ ~task[s].readThrows

\* C5: a readable change with a recognized caseStatus and an email that is
\* not of the shape local@domain.tld is dropped at the Detector: no
\* audit-log entry, no call of the Notifier, no retry, no Admin Alert.
C5_MalformedEmailDropped ==
  \A s \in Slots :
    (/\ task[s].pc # "free"
     /\ ~task[s].readThrows
     /\ task[s].newStatus \in validStatuses
     /\ ~emailRegexTest(task[s].email))
      => /\ task[s].audit = 0
         /\ task[s].round = 0
         /\ task[s].alertCalls = 0

\* C6: once the gateway has accepted the status email of a transition, no
\* second email of that transition is accepted: the message is delivered
\* exactly once.
C6_DeliveredOnce ==
  \A s \in Slots : task[s].accepted <= 1

\* C7 (as claimed): the gateway is asked at most 3 times for one transition.
C7_AtMostThreeSends ==
  \A s \in Slots : task[s].gwCalls <= MaxRetries

\* C7 (amended): the gateway is asked at most 6 times for one transition, in
\* at most two runs of sendForStatus of at most 3 attempts each; once the
\* last attempt of the second run has failed nothing more is sent and
\* sendAdminAlert is called for the case.
C7_AtMostSixSends ==
  \A s \in Slots :
    /\ task[s].gwCalls <= 2 * MaxRetries
    /\ task[s].round <= 2
    /\ task[s].attempt <= MaxRetries
    /\ task[s].gwCalls <= (IF task[s].round = 0 THEN 0 ELSE (task[s].round - 1) * MaxRetries + task[s].attempt)
    /\ (task[s].gwCalls = 2 * MaxRetries /\ task[s].accepted = 0 /\ task[s].pc # "email")
         => (task[s].pc \in {"alerting", "done"} /\ task[s].alertCalls = 1)

\* all six attempts of a transition have failed and sendAdminAlert is called
C7_Witness ==
  \E s \in Slots :
    /\ task[s].pc = "alerting"
    /\ task[s].gwCalls = 2 * MaxRetries
    /\ task[s].accepted = 0

\* every attempt made for the change in s has failed and no more is coming
AllAttemptsFailed(s) ==
  /\ task[s].outcome = "dispatched"
  /\ task[s].pc \in {"alerting", "done"}
  /\ task[s].gwCalls > 0
  /\ task[s].accepted = 0

\* C8 (as claimed): if every email attempt of a transition fails, exactly one
\* Admin Alert is created for it, with the case ID and the message of the
\* last gateway error.
C8_ExhaustionOneAlert ==
  \A s \in Slots :
    (AllAttemptsFailed(s) /\ task[s].pc = "done")
      => /\ task[s].alerts = 1
         /\ task[s].alertCase = task[s].caseId
         /\ task[s].alertError = task[s].lastGwError

\* C8 (amended): if every email attempt fails, sendAdminAlert is called
\* exactly once for the transition, with the case ID and the message of the
\* error the Notifier threw (the last gateway error in part_002, "Failed to
\* send email after 3 attempts" in part_003); at most one alert record is
\* created, and none when the write to admin_alerts fails.
C8_ExhaustionOneAlertCall ==
  \A s \in Slots :
    AllAttemptsFailed(s)
      => /\ task[s].alertCalls = 1
         /\ task[s].alertCase = task[s].caseId
         /\ task[s].alertError =
              (IF notifier = "part_003" THEN "Failed to send email after 3 attempts"
                                        ELSE task[s].lastGwError)
         /\ task[s].alerts <= 1
         /\ task[s].pc = "alerting" => task[s].alerts = 0

\* delivery was exhausted and the alert was written
C8_Witness ==
  \E s \in Slots :
    /\ AllAttemptsFailed(s)
    /\ task[s].pc = "done"
    /\ task[s].alerts = 1
    /\ task[s].lastGwError \in GatewayErrors


\* the change in s carries a real status transition: a recognized new status
\* that differs from the old one, and a valid email
RealTransition(s) ==
  /\ task[s].oldStatus # Missing
  /\ task[s].newStatus \in validStatuses
  /\ task[s].newStatus # task[s].oldStatus
  /\ emailRegexTest(task[s].email)

\* C9 (as claimed, for a finished change): no real transition ends with
\* neither an accepted email nor an Admin Alert, if the store accepted the
\* alert write.
C9_NeverNeither ==
  \A s \in Slots :
    (task[s].pc = "done" /\ RealTransition(s) /\ task[s].alertCalls = task[s].alerts)
      => (task[s].accepted > 0 \/ task[s].alerts > 0)

\* C9 (amended): every queued change that carries a real transition is
\* eventually finished, and unless the idempotency guard or the rate limiter
\* dropped it, with an email accepted by the gateway or with sendAdminAlert
\* called for its case, whose record exists if the store accepted the write.
C9_EventuallyEmailOrAlert ==
  \A s \in Slots :
    (task[s].pc = "queued" /\ RealTransition(s))
      ~> (/\ task[s].pc = "done"
          /\ \/ task[s].outcome \in {"skipped", "rate_limited"}
             \/ task[s].accepted > 0
             \/ task[s].alerts > 0
             \/ (task[s].alertCalls = 1 /\ task[s].alerts = 0))

\* a real transition ended without an accepted email and with an alert
C9_Witness ==
  \E s \in Slots :
    /\ task[s].pc = "done" /\ RealTransition(s)
    /\ task[s].outcome = "dispatched"
    /\ task[s].accepted = 0
    /\ task[s].alerts = 1


\* C10: whatever fails inside a case's pipeline, the listener is touched by
\* nothing but start(), stop(), an error of the change feed and the restart
\* timer that error armed; and only an error of the feed arms that timer.
C10_PipelineFailuresStayLocal ==
  [][/\ (listenerVars' # listenerVars)
          => (Start \/ Stop \/ FeedError \/ RestartTimerFires)
     /\ (restartTimers' > restartTimers) => FeedError]_vars

\* a pipeline failed down to the write of its Admin Alert while the listener
\* stayed subscribed with no restart pending
C10_Witness ==
  \E s \in Slots :
    /\ task[s].pc = "done"
    /\ task[s].alertCalls = 1 /\ task[s].alerts = 0
    /\ isActive /\ feedLive /\ unsubscribe = 1 /\ restartTimers = 0


\* C11: the restart that the timer of handleListenerError runs always leaves
\* the Detector subscribed to the change feed again: whenever a restart
\* timer fires, the listener is active with a live subscription afterwards.
C11_RestartResubscribes ==
  [][(restartTimers' < restartTimers)
       => (isActive' /\ unsubscribe' = 1 /\ feedLive')]_vars

\* C12: at most one subscription to the change feed is open at a time, it
\* is the one whose handle is held, and isActive is true exactly when a
\* handle is held.
C12_OneSubscription ==
  /\ subscriptions <= 1
  /\ isActive <=> (unsubscribe # 0)
  /\ subscriptions = (IF unsubscribe # 0 THEN 1 ELSE 0)
  /\ feedLive => (unsubscribe # 0)

\* a subscription is live while the restart timer armed by the error of an
\* earlier one is still pending (feed error, stop(), start())
C12_Witness ==
  /\ restartTimers = 1
  /\ isActive /\ feedLive /\ subscriptions = 1


\* C13: the statusHistory of a case only grows: at every step its length
\* does not decrease and the entries it had stay where they were.
C13_HistoryAppendOnly ==
  [][\A c \in PayCases :
       LET h == tickets[c].statusHistory
           g == tickets'[c].statusHistory
       IN Len(g) >= Len(h) /\ SubSeq(g, 1, Len(h)) = h]_vars

\* C14: the caseStatus of a case equals the status of the last entry of its
\* statusHistory.
C14_StatusIsLastHistoryEntry ==
  \A c \in PayCases :
    (tickets[c].exists /\ tickets[c].statusHistory # <<>>)
      => tickets[c].caseStatus = tickets[c].statusHistory[Len(tickets[c].statusHistory)]

\* the event being handled is a checkout-completed/paid event for a case
\* that existed with paymentStatus pending when it arrived
PaidEventOnPending ==
  /\ job.type = "checkout.session.completed" /\ job.paid
  /\ job.ref # Missing
  /\ job.before.exists /\ job.before.paymentStatus = "pending"

\* C15 (as claimed): a checkout-completed/paid event for an existing pending
\* case ends with the case paid and submitted for review, one more history
\* entry, and exactly one payment-success email attempt.
C15_PaidEventApplied ==
  /\ [](job.pc = "done" /\ PaidEventOnPending
          => (job.wrote = "paid" /\ job.emailAttempts = 1))
  /\ [][(job.pc = "update" /\ job'.pc # "update" /\ PaidEventOnPending)
          => /\ tickets'[job.ref].paymentStatus = "paid"
             /\ tickets'[job.ref].caseStatus = "submitted_for_review"
             /\ Len(tickets'[job.ref].statusHistory)
                  = Len(tickets[job.ref].statusHistory) + 1]_vars

\* C15 (amended): when the store serves the read and the update of such an
\* event, the update makes the case paid and submitted for review and
\* appends one payment_received entry, and exactly one payment-success email
\* is attempted if a contact email is resolved, none otherwise; when the
\* read or the update fails, the case is not changed and no email is
\* attempted.
C15_PaidEventAppliedIfStored ==
  /\ [](job.pc = "done" /\ PaidEventOnPending
          => IF job.wrote = "paid"
               THEN job.emailAttempts = (IF job.email # NoEmail THEN 1 ELSE 0)
               ELSE job.failedCalls = 1 /\ job.emailAttempts = 0 /\ job.writes = 0)
  /\ [][(job.pc = "update" /\ job'.pc # "update" /\ PaidEventOnPending)
          => IF job'.wrote = "paid"
               THEN /\ tickets'[job.ref].paymentStatus = "paid"
                    /\ tickets'[job.ref].caseStatus = "submitted_for_review"
                    /\ tickets'[job.ref].statusHistory
                         = Append(tickets[job.ref].statusHistory, "payment_received")
               ELSE tickets' = tickets]_vars

\* a paid event was applied to a pending case and its one email attempted
C15_Witness ==
  /\ job.pc = "done" /\ PaidEventOnPending
  /\ job.wrote = "paid" /\ job.emailAttempts = 1
  /\ tickets[job.ref].paymentStatus = "paid"

\* C16: a payment-success email that the gateway does not accept is retried,
\* up to 3 attempts in total: a finished payment-success handling whose
\* email was never accepted has made 3 attempts.
C16_SuccessEmailRetried ==
  (/\ job.pc = "done"
   /\ job.type = "checkout.session.completed"
   /\ job.emailAttempts > 0
   /\ job.emailsAccepted = 0)
    => job.emailAttempts = MaxRetries

\* C17: paid is terminal: no step of the handling of a payment event takes
\* the paymentStatus of a case from paid to another value.
C17_PaidIsTerminal ==
  [][\A c \in PayCases :
       (job' # job /\ tickets[c].paymentStatus = "paid")
         => tickets'[c].paymentStatus = "paid"]_vars

\* the event being handled names a case that existed when it arrived, and
\* no call to the store or the gateway has failed while handling it
NamesExistingCase ==
  /\ job.ref # Missing
  /\ job.before.exists
  /\ job.failedCalls = 0

\* C18: each of the three failure events that references an existing case
\* with paymentStatus pending moves the case to failed.
C18_FailureEventsMarkFailed ==
  (/\ job.pc = "done"
   /\ job.type \in FailureEvents
   /\ NamesExistingCase
   /\ job.before.paymentStatus = "pending")
    => job.wrote = "failed"

\* C19: for a payment-failure event that names a case exactly one Admin
\* Alert of type payment_failed is created, whatever became of the failure
\* email.
C19_FailureAlwaysAlerts ==
  (/\ job.pc = "done"
   /\ job.type \in {"checkout.session.async_payment_failed",
                    "payment_intent.payment_failed"}
   /\ NamesExistingCase)
    => job.alerts = 1

\* C20: a payment event that carries no case reference is a no-op: no case
\* is read or written, no email is attempted and no Admin Alert is created.
C20_NoReferenceNoOp ==
  /\ [](job.ref = Missing
          => /\ job.reads = 0 /\ job.writes = 0
             /\ job.emailAttempts = 0
             /\ job.alertCalls = 0 /\ job.alerts = 0)
  /\ [][(job' # job /\ job'.ref = Missing) => tickets' = tickets]_vars

\* a paid checkout-completed event without a case reference was handled
\* while a case existed
C20_Witness ==
  /\ job.pc = "done" /\ job.acked
  /\ job.type = "checkout.session.completed" /\ job.paid
  /\ job.ref = Missing
  /\ \E c \in PayCases : tickets[c].exists

\* C21: on a payment-failure event the contact email is the first non-empty
\* of the case's root email, the email of its extracted data and the email
\* the provider supplies; and when the case has no root email, a resolved
\* email is written back onto the case before the status update.
C21_EmailResolutionOrder ==
  /\ [](\/ job.type \notin {"checkout.session.async_payment_failed",
                             "payment_intent.payment_failed"}
        \/ ~job.data.exists
        \/ job.email = FirstNonEmpty(job.data.email,
                          FirstNonEmpty(job.data.extractedEmail, job.evEmail)))
  /\ [][(/\ job.pc = "get" /\ job'.pc = "update"
         /\ job.type \in {"checkout.session.async_payment_failed",
                          "payment_intent.payment_failed"})
          => (job'.data.email # NoEmail \/ job'.email = NoEmail)]_vars

\* C22: every record written to notification_logs or email_logs holds the
\* recipient only in masked form, never the full address of the client.
C22_LogsHoldMaskedAddress ==
  /\ \A s \in Slots :
       task[s].notifLogs > 0 => task[s].loggedEmail # task[s].email
  /\ (server = "part_006" /\ job.loggedTo # NoEmail) => job.loggedTo # job.email

\* C27: maskEmail keeps the first two characters of the local part, replaces
\* the rest of it by a mask and keeps the domain, maskEmail("johndoe@x.com")
\* being "jo***@x.com"; a local part of at most two characters is masked
\* entirely ("**@x.com"); no character of the local part beyond the first
\* two is in the result.
C27_MaskEmail ==
  LET e == maskArg
      r == maskResult.out
      name == SplitName(e)
      domain == SplitDomain(e)
      masked == SplitName(r)
  IN (/\ maskResult.done
      /\ Cardinality({i \in 1..Len(e) : e[i] = "@"}) = 1
      /\ name # <<>> /\ domain # <<>>)
       => /\ e = JohnDoe =>
               r = <<"j", "o", "*", "*", "*", "@", "x", ".", "c", "o", "m">>
          /\ SplitDomain(r) = domain
          /\ Len(name) <= 2 => masked = <<"*", "*">>
          /\ Len(name) > 2 =>
               /\ Len(masked) > 2
               /\ SubSeq(masked, 1, 2) = SubSeq(name, 1, 2)
               /\ \A i \in 3..Len(masked) : masked[i] = "*"

\* C23: events of different cases are independent: a change is dropped by
\* the idempotency guard only while its own case is being processed and by
\* the rate limiter only on its own case's timestamps, otherwise a valid
\* change is dispatched as soon as it is dequeued; and the processing set
\* and the timestamps of a case are touched only by steps of that case's
\* changes.
C23_CasesIndependent ==
  /\ [][(immediateQ # <<>> /\ immediateQ' = Tail(immediateQ))
         => LET s == Head(immediateQ)
                c == task[s].caseId
                limited == Len(RecentStamps(rateLimit[c], now)) >= RateMax
            IN /\ task'[s].outcome = "skipped" => c \in processingIds
               /\ task'[s].outcome = "rate_limited" => limited
               /\ (/\ c \notin processingIds /\ ~limited
                   /\ ~task[s].readThrows
                   /\ isValidStatusChange(task[s].oldStatus, task[s].newStatus,
                                          task[s].email))
                    => task'[s].pc = "logging"]_vars
  /\ [][\A c \in Cases :
          (\/ rateLimit'[c] # rateLimit[c]
           \/ (c \in processingIds') # (c \in processingIds))
            => \E s \in Slots : task[s].caseId = c /\ task'[s] # task[s]]_vars

\* a change of one case is dispatched while the other case is rate-limited,
\* a change of it has been dropped by the limiter, and its last pipeline is
\* still in flight
C23_Witness ==
  \E s, u \in Slots :
    /\ task[s].caseId = "c2" /\ task[s].pc = "email"
    /\ Len(rateLimit["c2"]) = 1
    /\ task[u].caseId = "abc123" /\ task[u].outcome = "rate_limited"
    /\ Len(RecentStamps(rateLimit["abc123"], now)) = RateMax

\* C24: a finished validated transition to case_dismissed whose email was
\* sent has created exactly one scheduled_review_emails record, due 24 hours
\* after the send; a transition to another status, or one whose email was
\* never accepted, has created none.
C24_OneReviewRequest ==
  \A s \in Slots :
    (task[s].pc = "done" /\ task[s].outcome = "dispatched")
      => IF task[s].newStatus = "case_dismissed" /\ task[s].accepted > 0
           THEN task[s].reviews = 1 /\ task[s].scheduledFor = now + ReviewDelayMs
           ELSE task[s].reviews = 0

\* C25: once the email of a transition is sent, a failed write of the review
\* request or of the notification log does not fail sendForStatus: from
\* those two steps the pipeline only goes on to its end, never to the 5 s
\* retry or to sendAdminAlert.
C25_LogFailuresNotFatal ==
  [][\A s \in Slots :
       task[s].pc \in {"schedule", "lognotif"}
         => task'[s].pc \in {"schedule", "lognotif", "done"}]_vars

\* C26: a send that the gateway reports as failed through its result value
\* is a failed attempt: the Notifier goes on to the backoff or, after the
\* third attempt, raises; and no email_sent entry is written to
\* notification_logs for a transition none of whose emails was accepted.
C26_ReportedFailureIsFailure ==
  /\ [](\A s \in Slots :
          (task[s].pc \in {"schedule", "lognotif"} \/ task[s].notifLogs > 0)
            => task[s].accepted > 0)
  /\ [][\A s \in Slots :
          (/\ task[s].pc = "email" /\ task'[s].pc # "email"
           /\ task'[s].accepted = task[s].accepted)
            => task'[s].pc \in {"backoff", "wait5", "alerting"}]_vars

\* C28: within one call of sendEmailWithRetry the attempts are sequential
\* and bounded: an attempt after the first starts only from the backoff that
\* followed the failure of the one before (2 s before the second, 4 s before
\* the third), the backoff is entered only from a failed attempt, the first
\* success ends the loop with no further attempt, and the call raises only
\* on the failure of the third attempt.
C28_AttemptsSequentialBounded ==
  /\ [](\A s \in Slots : task[s].attempt <= MaxRetries)
  /\ [][\A s \in Slots :
          LET t == task[s]
              u == task'[s]
          IN /\ (t.attempt > 0 /\ u.attempt > t.attempt)
                  => /\ t.pc = "backoff"
                     /\ u.attempt = t.attempt + 1
                     /\ t.delay = (IF t.attempt = 1 THEN 2000 ELSE 4000)
             /\ (u.pc = "backoff" /\ t.pc # "backoff")
                  => /\ t.pc = "email"
                     /\ u.accepted = t.accepted
                     /\ u.attempt = t.attempt /\ u.attempt < MaxRetries
             /\ (t.pc = "email" /\ u.accepted > t.accepted)
                  => /\ u.pc \in {"schedule", "lognotif"}
                     /\ u.attempt = t.attempt
                     /\ u.gwCalls = t.gwCalls
             /\ (t.pc \in {"email", "backoff"} /\ u.pc \in {"wait5", "alerting"})
                  => /\ t.pc = "email"
                     /\ t.attempt = MaxRetries
                     /\ u.accepted = t.accepted]_vars

\* the third attempt of a call is at the gateway, after two failures and
\* the 4 s backoff
C28_Witness ==
  \E s \in Slots :
    /\ task[s].pc = "email" /\ task[s].attempt = MaxRetries
    /\ task[s].round = 1 /\ task[s].gwCalls = MaxRetries
    /\ task[s].accepted = 0

\* C29: for every validated transition the audit-log write is issued once,
\* when the change is dequeued, and the Notifier is invoked only when that
\* write has settled, and whether it succeeded or failed: while the write is
\* awaited nothing has been sent, and its settling always starts the first
\* run of sendForStatus.
C29_AuditLogBeforeNotifier ==
  /\ [](\A s \in Slots :
          /\ task[s].audit <= 1
          /\ task[s].pc = "logging"
                => (task[s].round = 0 /\ task[s].gwCalls = 0 /\ task[s].audit = 0)
          /\ task[s].round > 0 => task[s].outcome = "dispatched")
  /\ [][\A s \in Slots :
          LET t == task[s]
              u == task'[s]
          IN /\ (u.pc = "logging" /\ t.pc # "logging") => t.pc = "queued"
             /\ (t.round = 0 /\ u.round > 0) => t.pc = "logging"
             /\ (t.pc = "logging" /\ u.pc # "logging")
                  => (u.round = 1 /\ u.outcome = "dispatched")]_vars

\* the audit-log write of a transition failed and its email was sent
C29_Witness ==
  \E s \in Slots :
    /\ task[s].pc = "done" /\ task[s].outcome = "dispatched"
    /\ task[s].audit = 0
    /\ task[s].accepted = 1

\* C30: rate limiting of a case is temporary: a valid change dequeued when
\* fewer than 5 timestamps of its case lie within the last 60 seconds (and
\* no other change of the case is being processed) is dispatched; and a run
\* of cleanupRateLimits never changes the result of isRateLimited for any
\* case.
C30_RateLimitTemporary ==
  /\ [][(immediateQ # <<>> /\ immediateQ' = Tail(immediateQ))
         => LET s == Head(immediateQ)
                c == task[s].caseId
            IN (/\ c \notin processingIds
                /\ Len(RecentStamps(rateLimit[c], now)) < RateMax
                /\ ~task[s].readThrows
                /\ isValidStatusChange(task[s].oldStatus, task[s].newStatus,
                                       task[s].email))
                 => (task'[s].pc = "logging" /\ task'[s].outcome # "rate_limited")]_vars
  /\ [][(cleanupDue # NotArmed /\ cleanupDue' = cleanupDue + CleanupIntervalMs)
         => \A c \in Cases :
              (Len(RecentStamps(rateLimit'[c], now')) >= RateMax)
                <=> (Len(RecentStamps(rateLimit[c], now)) >= RateMax)]_vars

\* a change of a case is dispatched after an earlier change of it was
\* dropped by the limiter, and the cleanup has removed timestamps of the
\* case since
C30_Witness ==
  \E s, u \in Slots :
    /\ task[u].caseId = "abc123" /\ task[u].outcome = "rate_limited"
    /\ task[s].caseId = "abc123" /\ task[s].pc = "logging"
    /\ cleanupDue > CleanupIntervalMs + MaxNow
    /\ Len(rateLimit["abc123"]) < Len(dispatchLog["abc123"])

\* the change carries no change of caseStatus: the old document has none, or
\* the new one has the same
NoStatusChange(t) == t.oldStatus = Missing \/ t.oldStatus = t.newStatus

\* a change that handleSnapshot passes over leaves everything as it was
SkippedChangesNothing ==
  [][skipped' # skipped =>
       UNCHANGED <<listenerVars, detectorVars, paymentVars, cleanupDue, now>>]_vars

\* only modified changes are handed to processStatusChange
OnlyModifiedQueued ==
  \A s \in Slots : task[s].pc # "free" => task[s].type = "modified"

\* C31 (as claimed): added and removed changes, and modified changes whose
\* old document has no caseStatus or whose caseStatus is unchanged, trigger
\* nothing: no audit-log entry, no notification, no rate-limit timestamp and
\* no Admin Alert.
C31_NoStatusChangeNoEffect ==
  /\ SkippedChangesNothing
  /\ [](OnlyModifiedQueued)
  /\ [](\A s \in Slots :
          (task[s].pc # "free" /\ NoStatusChange(task[s]))
            => /\ task[s].audit = 0
               /\ task[s].round = 0 /\ task[s].gwCalls = 0
               /\ task[s].stamps = 0
               /\ task[s].alertCalls = 0 /\ task[s].alerts = 0)

\* C31 (amended): added and removed changes trigger nothing; a modified
\* change without a change of caseStatus writes no audit-log entry, reaches
\* no Notifier and records no rate-limit timestamp, and sendAdminAlert is
\* called for it only when reading the change throws, and then once.
C31_NoStatusChangeNoDispatch ==
  /\ SkippedChangesNothing
  /\ [](OnlyModifiedQueued)
  /\ [](\A s \in Slots :
          (task[s].pc # "free" /\ NoStatusChange(task[s]))
            => /\ task[s].audit = 0
               /\ task[s].round = 0 /\ task[s].gwCalls = 0
               /\ task[s].stamps = 0
               /\ task[s].alertCalls <= 1
               /\ task[s].alertCalls = 1 =>
                    (task[s].readThrows /\ task[s].alertError = "TypeError")
               /\ ~task[s].readThrows =>
                    (task[s].alertCalls = 0 /\ task[s].alerts = 0))

\* an added and a removed change were passed over, and a readable modified
\* change that kept its caseStatus was dropped by the validation
C31_Witness ==
  /\ skipped = {"added", "removed"}
  /\ \E s \in Slots :
       /\ task[s].pc = "done" /\ task[s].outcome = "invalid"
       /\ task[s].oldStatus = "approval_pending"
       /\ task[s].newStatus = "approval_pending"
       /\ task[s].email = GoodEmail
       /\ rateLimit[task[s].caseId] = <<>>

\* the change that the update of payment-success handling causes
FromPaidUpdate(t) == t.pc # "free" /\ t.newStatus = "submitted_for_review"

\* C32 (as claimed): the case update written by payment-success handling
\* never makes the Detector send a status email, write an audit-log entry or
\* create an Admin Alert.
C32_PaidUpdateNoStatusEffect ==
  \A s \in Slots :
    FromPaidUpdate(task[s])
      => /\ task[s].round = 0 /\ task[s].gwCalls = 0
         /\ task[s].audit = 0
         /\ task[s].stamps = 0
         /\ task[s].alertCalls = 0 /\ task[s].alerts = 0

\* C32 (amended): the update never makes the Detector send a status email or
\* write an audit-log entry; sendAdminAlert is called for it only when
\* reading the change throws, and then once.
C32_PaidUpdateNoStatusEmail ==
  \A s \in Slots :
    FromPaidUpdate(task[s])
      => /\ task[s].round = 0 /\ task[s].gwCalls = 0
         /\ task[s].audit = 0
         /\ task[s].stamps = 0
         /\ task[s].alertCalls <= 1
         /\ task[s].alertCalls = 1 =>
              (task[s].readThrows /\ task[s].alertError = "TypeError")
         /\ ~task[s].readThrows => (task[s].alertCalls = 0 /\ task[s].alerts = 0)

\* a case with a contact email went from approval_pending to paid, the
\* payment email was accepted, and the Detector dropped the readable change
C32_Witness ==
  \E s \in Slots :
    /\ task[s].pc = "done" /\ task[s].outcome = "invalid"
    /\ task[s].oldStatus = "approval_pending"
    /\ task[s].newStatus = "submitted_for_review"
    /\ task[s].email = GoodEmail
    /\ tickets[task[s].caseId].paymentStatus = "paid"
    /\ job.type = "checkout.session.completed" /\ job.emailsAccepted = 1

\* C33: after the owner has called stop(), and until the owner calls start(),
\* the Detector is inactive and holds no subscription; a restart timer that
\* a feed error armed before the stop does not resubscribe it.
C33_StoppedStaysStopped ==
  stopRequested => (~isActive /\ unsubscribe = 0 /\ subscriptions = 0)

\* the processStatusChange calls that are suspended (at the await of the
\* audit log)
Suspended == {s \in Slots : task[s].pc = "logging"}

\* C34: the processing set holds exactly the case IDs of the suspended
\* processStatusChange calls: an ID is removed when its call ends, on every
\* path, so the set is empty whenever no call is suspended and no case stays
\* locked out.
C34_ProcessingSetReleased ==
  /\ processingIds = {task[s].caseId : s \in Suspended}
  /\ Suspended = {} => processingIds = {}

\* for one case, a change was dropped by the validation and another was
\* dispatched after its audit-log write had failed, and the set is empty
C34_Witness ==
  \E s, u \in Slots :
    /\ task[s].pc = "done" /\ task[s].outcome = "invalid"
    /\ task[u].outcome = "dispatched" /\ task[u].audit = 0
    /\ task[u].caseId = task[s].caseId
    /\ processingIds = {}

\* C35: a create-payment-session request never overwrites a paid case: once
\* the update of a payment-success webhook that found the case pending has
\* made it paid, no write of a request that read the case earlier takes its
\* paymentStatus back to pending.
C35_PaidNotOverwritten ==
  [][\A c \in PayCases :
       (/\ tickets[c].paymentStatus = "paid"
        /\ job.ref = c /\ job.wrote = "paid"
        /\ job.before.paymentStatus = "pending")
         => tickets'[c].paymentStatus # "pending"]_vars

\* C36: every payment event whose signature verifies is answered with
\* {received: true} once its handling has ended, whatever failed on the way;
\* a request whose signature does not verify is answered with 400 and no
\* call is made to the store or the gateway for it.
C36_VerifiedEventsAcknowledged ==
  job.pc = "done" =>
    IF job.verified
      THEN job.acked /\ job.answer = "received"
      ELSE /\ job.answer = "400"
           /\ job.reads = 0 /\ job.writes = 0 /\ job.failedCalls = 0
           /\ job.emailAttempts = 0 /\ job.alertCalls = 0

\* C37: handling the same checkout-completed event a second time changes
\* nothing: the update of the second handling leaves paymentStatus paid and
\* caseStatus submitted_for_review and appends no second payment_received
\* entry, and over both handlings at most one payment-success email is sent.
C37_CompletedEventIdempotent ==
  /\ [](job.again => job.sentBefore + job.emailsAccepted <= 1)
  /\ [][(/\ job.again /\ job.pc = "update" /\ job'.wrote = "paid"
         /\ \E i \in 1..Len(tickets[job.ref].statusHistory) :
              tickets[job.ref].statusHistory[i] = "payment_received")
        => /\ tickets'[job.ref].paymentStatus = "paid"
           /\ tickets'[job.ref].caseStatus = "submitted_for_review"
           /\ tickets'[job.ref].statusHistory = tickets[job.ref].statusHistory]_vars

====
